---- MODULE Spec2Model ----
(***************************************************************************)
(* Conway's Game of Life engine of src/src/game.rs (struct Game), driven   *)
(* by an arbitrary caller: Game::new, then any sequence of                 *)
(* revive_cell_at_pos, kill_cell_at_pos, resize_if_larger and tick calls.  *)
(*                                                                         *)
(* A grid is a sequence of rows, a row a sequence of cells, a cell the     *)
(* record [x, y, kind].  Rust indices are 0-based, TLA+ sequences 1-based: *)
(* the cell at column x, row y is cells[y + 1][x + 1].                     *)
(***************************************************************************)
EXTENDS FiniteSets, Integers, Sequences, TLC

\* Largest width / height a caller asks for (Game::new and resize_if_larger).
MaxWidth == 3
MaxHeight == 3

\* Largest number of cells of a grid a caller asks for.
MaxCells == 9

\* u16::MAX and the modulus of an `as u16` cast; the modulus of `as u8`.
U16Max == 65535
U16Mod == 65536
U8Mod == 256

VARIABLES
    cells,  \* Game.cells: Vec<Vec<Cell>>
    pc,     \* "idle": between calls; "returned": a call has just returned;
            \* "panicked": a call panicked and the program is gone
    call,   \* the call that has just run: [op, a, b] (a, b its two arguments)
    ret,    \* its result: "Some", "None", "Unit", or "Panic"
    prev,   \* Game.cells as it was when that call started
    playing,   \* the terminal driver: `playing` of TuiGame::start_loop
    sleep_ms,  \* the terminal driver: milliseconds start_loop sleeps at the
               \* end of an iteration
    scenario,  \* the scenarios: the grid size and the cells revived at the
               \* start, [width, height, alive]
    gen        \* the scenarios: number of ticks run so far

vars == <<cells, pc, call, ret, prev, playing, sleep_ms, scenario, gen>>

driver_vars == <<playing, sleep_ms>>

scenario_vars == <<scenario, gen>>

----------------------------------------------------------------------------
\* Cell

Cell_new(x, y) == [x |-> x, y |-> y, kind |-> "Dead"]

Cell_new_alive(x, y) == [x |-> x, y |-> y, kind |-> "Alive"]

is_alive(c) == c.kind = "Alive"

live(c) == [c EXCEPT !.kind = "Alive"]

die(c) == [c EXCEPT !.kind = "Dead"]

----------------------------------------------------------------------------
\* Integer helpers of the u16 / usize arithmetic

as_u16(n) == n % U16Mod

as_u8(n) == n % U8Mod

saturating_sub_wrapping(x) == (x - 1) % U16Mod

saturating_sub(x) == IF x = 0 THEN 0 ELSE x - 1

saturating_add(x) == IF x = U16Max THEN U16Max ELSE x + 1

Min(a, b) == IF a < b THEN a ELSE b

Max(a, b) == IF a > b THEN a ELSE b

----------------------------------------------------------------------------
\* Game::new

Game_new(width, height) ==
    [y \in 1..height |-> [x \in 1..width |-> Cell_new(x - 1, y - 1)]]

\* Dimensions of a grid (a grid without rows has no columns).
Height(g) == Len(g)

Width(g) == IF Len(g) = 0 THEN 0 ELSE Len(g[1])

----------------------------------------------------------------------------
\* Game::cells

\* The inner loop: one (cell, (x as u16, y as u16)) entry per cell of the
\* row, x the index of the cell in the row.
row_entries_y_first(row, y) ==
    [i \in 1..Len(row) |-> <<row[i], <<as_u16(y), as_u16(i - 1)>>>>]

row_entries(row, y) ==
    [i \in 1..Len(row) |-> <<row[i], <<as_u16(i - 1), as_u16(y)>>>>]

\* The outer loop from row j on: the entries of each row pushed in turn.
RECURSIVE cells_from(_, _)
cells_from(g, j) ==
    IF j > Len(g)
    THEN <<>>
    ELSE row_entries(g[j], j - 1) \o cells_from(g, j + 1)

Game_cells(g) == cells_from(g, 1)

----------------------------------------------------------------------------
\* find_cell_at_pos_mut, revive_cell_at_pos, kill_cell_at_pos

\* Vec::get_mut twice: "None" when the row or the column does not exist.
find_cell_at_pos_mut(g, x, y) ==
    IF y + 1 \in 1..Len(g)
    THEN IF x + 1 \in 1..Len(g[y + 1]) THEN "Some" ELSE "None"
    ELSE "None"

revive_cell_at_pos_swapped(g, x, y) ==
    IF find_cell_at_pos_mut(g, y, x) = "None"
    THEN [cells |-> g, ret |-> "None"]
    ELSE [cells |-> [g EXCEPT ![x + 1][y + 1] = live(@)], ret |-> "Some"]

revive_cell_at_pos(g, x, y) ==
    IF find_cell_at_pos_mut(g, x, y) = "None"
    THEN [cells |-> g, ret |-> "None"]
    ELSE [cells |-> [g EXCEPT ![y + 1][x + 1] = live(@)], ret |-> "Some"]

kill_cell_at_pos_calls_live(g, x, y) ==
    IF find_cell_at_pos_mut(g, x, y) = "None"
    THEN [cells |-> g, ret |-> "None"]
    ELSE [cells |-> [g EXCEPT ![y + 1][x + 1] = live(@)], ret |-> "Some"]

kill_cell_at_pos(g, x, y) ==
    IF find_cell_at_pos_mut(g, x, y) = "None"
    THEN [cells |-> g, ret |-> "None"]
    ELSE [cells |-> [g EXCEPT ![y + 1][x + 1] = die(@)], ret |-> "Some"]

----------------------------------------------------------------------------
\* resize_if_larger

\* First loop: rows old_height..height appended at the bottom, each of the
\* width the grid had when the call started.
AddRows_truncating(g, old_width, old_height, height) ==
    IF height > old_height
    THEN g \o [i \in 1..(height - old_height) |->
                 [x \in 1..old_width |-> Cell_new(x - 1, old_height + i - 1)]]
    ELSE SubSeq(g, 1, height)

AddRows_y_from_zero(g, old_width, old_height, height) ==
    IF height > old_height
    THEN g \o [i \in 1..(height - old_height) |->
                 [x \in 1..old_width |-> Cell_new(x - 1, i - 1)]]
    ELSE g

AddRows(g, old_width, old_height, height) ==
    IF height > old_height
    THEN g \o [i \in 1..(height - old_height) |->
                 [x \in 1..old_width |-> Cell_new(x - 1, old_height + i - 1)]]
    ELSE g

\* Second loop: every row (the appended ones too) extended on the right
\* with cells old_width..width.
AddCols_old_rows_only(g, old_width, old_height, width) ==
    IF width > old_width
    THEN [y \in 1..Len(g) |->
            IF y <= old_height
            THEN g[y] \o [i \in 1..(width - old_width) |->
                            Cell_new(old_width + i - 1, as_u16(y - 1))]
            ELSE g[y]]
    ELSE g

AddCols_off_by_one(g, old_width, old_height, width) ==
    IF width > old_width
    THEN [y \in 1..Len(g) |->
            g[y] \o [i \in 1..(width - old_width - 1) |->
                       Cell_new(old_width + i, as_u16(y - 1))]]
    ELSE g

AddCols(g, old_width, old_height, width) ==
    IF width > old_width
    THEN [y \in 1..Len(g) |->
            g[y] \o [i \in 1..(width - old_width) |->
                       Cell_new(old_width + i - 1, as_u16(y - 1))]]
    ELSE g

\* `self.cells[0]` is an indexing expression: it panics on a grid without
\* rows, before anything is changed.
resize_if_larger(g, width, height) ==
    IF Len(g) = 0
    THEN [cells |-> g, ret |-> "Panic"]
    ELSE LET old_height == as_u16(Len(g))
             old_width == as_u16(Len(g[1]))
         IN  [cells |-> AddCols(AddRows(g, old_width, old_height, height),
                                old_width, old_height, width),
              ret |-> "Unit"]

----------------------------------------------------------------------------
\* slice_until, slice_len_2d

None == [some |-> FALSE]

Some(v) == [some |-> TRUE, val |-> v]

\* a.get(from..) is None when from > len; a.get(..until) with
\* until <= len is always Some.
slice_until(a, from, until) ==
    IF from > Len(a)
    THEN None
    ELSE LET rest == SubSeq(a, from + 1, Len(a))
         IN  Some(SubSeq(rest, 1, Min(until, Len(rest))))

\* The two closures get_neighbours_count_at_pos passes as `filter`, as
\* data: |c| c.is_alive(), and the one of the current row, which captures
\* (x, y) and also asks (c.x, c.y) != (x, y).
filter_alive == [centre |-> FALSE, x |-> 0, y |-> 0]

filter_alive_not_at(x, y) == [centre |-> TRUE, x |-> x, y |-> y]

call_filter(filter, c) ==
    is_alive(c) /\ (filter.centre => <<c.x, c.y>> # <<filter.x, filter.y>>)

\* a.get(y_index), then slice_until, then the number of elements the
\* filter accepts; 0 when either lookup gives None.
slice_len_2d(a, y_index, from, until, filter) ==
    IF y_index + 1 \in 1..Len(a)
    THEN LET s == slice_until(a[y_index + 1], from, until)
         IN  IF s.some
             THEN Cardinality({i \in 1..Len(s.val) : call_filter(filter, s.val[i])})
             ELSE 0
    ELSE 0

----------------------------------------------------------------------------
\* get_neighbours_count_at_pos

\* `next_x - prev_x + 1` is usize arithmetic: the subtraction overflows
\* (a panic in a build with overflow checks) when next_x < prev_x.
until_overflows(x) == saturating_add(x) < saturating_sub(x)

get_neighbours_count_at_pos_counts_centre(g, x, y) ==
    LET prev_y == saturating_sub(y)
        current_y == y
        next_y == saturating_add(y)
        prev_x == saturating_sub(x)
        next_x == saturating_add(x)
        until == next_x - prev_x + 1
        filter == filter_alive
        prev_count == IF prev_y # current_y
                      THEN slice_len_2d(g, prev_y, prev_x, until, filter)
                      ELSE 0
        current_count == slice_len_2d(g, current_y, prev_x, until, filter)
        next_count == slice_len_2d(g, next_y, prev_x, until, filter)
    IN  as_u8(prev_count + current_count + next_count)

get_neighbours_count_at_pos(g, x, y) ==
    LET prev_y == saturating_sub(y)
        current_y == y
        next_y == saturating_add(y)
        prev_x == saturating_sub(x)
        next_x == saturating_add(x)
        until == next_x - prev_x + 1
        filter == filter_alive
        current_filter == filter_alive_not_at(x, y)
        prev_count == IF prev_y # current_y
                      THEN slice_len_2d(g, prev_y, prev_x, until, filter)
                      ELSE 0
        current_count == slice_len_2d(g, current_y, prev_x, until, current_filter)
        next_count == slice_len_2d(g, next_y, prev_x, until, filter)
    IN  as_u8(prev_count + current_count + next_count)

----------------------------------------------------------------------------
\* tick

\* The match of tick: (true, 2..=3) | (false, 3) gives an Alive cell.
next_alive_survives_on_2_only(alive, neighbours_count) ==
    \/ alive /\ neighbours_count = 2
    \/ ~alive /\ neighbours_count = 3

next_alive(alive, neighbours_count) ==
    \/ alive /\ neighbours_count \in 2..3
    \/ ~alive /\ neighbours_count = 3

\* Every cell of new_cells is computed from self.cells, which is replaced
\* only after the loops.
tick_cells_skips_last_row(g) ==
    [j \in 1..(Len(g) - 1) |->
       [i \in 1..Len(g[j]) |->
          LET x == as_u16(i - 1)
              y == as_u16(j - 1)
          IN  IF next_alive(is_alive(g[j][i]), get_neighbours_count_at_pos(g, x, y))
              THEN Cell_new_alive(x, y)
              ELSE Cell_new(x, y)]]

tick_cells(g) ==
    [j \in 1..Len(g) |->
       [i \in 1..Len(g[j]) |->
          LET x == as_u16(i - 1)
              y == as_u16(j - 1)
          IN  IF next_alive(is_alive(g[j][i]), get_neighbours_count_at_pos(g, x, y))
              THEN Cell_new_alive(x, y)
              ELSE Cell_new(x, y)]]

tick(g) ==
    IF \E j \in 1..Len(g) : \E i \in 1..Len(g[j]) : until_overflows(as_u16(i - 1))
    THEN [cells |-> g, ret |-> "Panic"]
    ELSE [cells |-> tick_cells(g), ret |-> "Unit"]

----------------------------------------------------------------------------
\* The caller

NoCall == [op |-> "none", a |-> 0, b |-> 0]

NoScenario == [width |-> 0, height |-> 0, alive |-> {}]

\* Coordinates a caller passes to revive / kill: every column or row of
\* the largest grid, one beyond it, and u16::MAX.
XArgs == 0..MaxWidth \cup {U16Max}

YArgs == 0..MaxHeight \cup {U16Max}

Init ==
    /\ \E width \in 0..MaxWidth : \E height \in 0..MaxHeight :
          /\ width * height <= MaxCells
          /\ cells = Game_new(width, height)
    /\ pc = "idle"
    /\ call = NoCall
    /\ ret = "Unit"
    /\ prev = cells
    /\ playing = FALSE
    /\ sleep_ms = 0
    /\ scenario = NoScenario
    /\ gen = 0

Finish(op, a, b, r) ==
    /\ cells' = r.cells
    /\ ret' = r.ret
    /\ pc' = IF r.ret = "Panic" THEN "panicked" ELSE "returned"
    /\ call' = [op |-> op, a |-> a, b |-> b]
    /\ prev' = cells

Revive ==
    /\ pc = "idle"
    /\ \E x \in XArgs : \E y \in YArgs :
          Finish("revive", x, y, revive_cell_at_pos(cells, x, y))
    /\ UNCHANGED <<driver_vars, scenario_vars>>

Kill ==
    /\ pc = "idle"
    /\ \E x \in XArgs : \E y \in YArgs :
          Finish("kill", x, y, kill_cell_at_pos(cells, x, y))
    /\ UNCHANGED <<driver_vars, scenario_vars>>

Resize ==
    /\ pc = "idle"
    /\ \E width \in 0..MaxWidth : \E height \in 0..MaxHeight :
          /\ Max(Width(cells), width) * Max(Height(cells), height) <= MaxCells
          /\ Finish("resize", width, height, resize_if_larger(cells, width, height))
    /\ UNCHANGED <<driver_vars, scenario_vars>>

Tick ==
    /\ pc = "idle"
    /\ Finish("tick", 0, 0, tick(cells))
    /\ UNCHANGED <<driver_vars, scenario_vars>>

\* The caller drops the result and is ready for its next call.
Return ==
    /\ pc = "returned"
    /\ pc' = "idle"
    /\ call' = NoCall
    /\ ret' = "Unit"
    /\ prev' = cells
    /\ UNCHANGED <<cells, driver_vars, scenario_vars>>

Next == Revive \/ Kill \/ Resize \/ Tick \/ Return

Spec == Init /\ [][Next]_vars

----------------------------------------------------------------------------
\* Reference notions the properties are stated with: positions are row and
\* column indices, never the coordinates a cell stores.

InGrid(g, x, y) == y + 1 \in 1..Len(g) /\ x + 1 \in 1..Len(g[y + 1])

AliveAt(g, x, y) == InGrid(g, x, y) /\ g[y + 1][x + 1].kind = "Alive"

Positions(g) ==
    UNION {{<<x, y>> : x \in 0..(Len(g[y + 1]) - 1)} : y \in 0..(Len(g) - 1)}

AliveSet(g) == {p \in Positions(g) : AliveAt(g, p[1], p[2])}

\* Alive cells among the in-bounds positions of the 3x3 neighbourhood of
\* (x, y), the centre left out.
Neighbourhood(x, y) ==
    {<<x + d[1], y + d[2]>> : d \in ((-1..1) \X (-1..1)) \ {<<0, 0>>}}

RefCount(g, x, y) == Cardinality({p \in Neighbourhood(x, y) : AliveAt(g, p[1], p[2])})

SameShape(g, h) ==
    /\ Len(g) = Len(h)
    /\ \A j \in 1..Len(g) : Len(g[j]) = Len(h[j])

Returned(op) == pc = "returned" /\ call.op = op

----------------------------------------------------------------------------
\* C1: after tick, a cell is Alive iff it was Alive with 2 or 3 Alive
\* neighbours in the pre-tick grid, or Dead with exactly 3 Alive neighbours
\* in the pre-tick grid; the counts are those of the pre-tick grid.
C1_TickRule ==
    Returned("tick") =>
        /\ SameShape(cells, prev)
        /\ \A p \in Positions(prev) :
              AliveAt(cells, p[1], p[2]) <=>
                 \/ AliveAt(prev, p[1], p[2]) /\ RefCount(prev, p[1], p[2]) \in {2, 3}
                 \/ ~AliveAt(prev, p[1], p[2]) /\ RefCount(prev, p[1], p[2]) = 3

\* A tick has run on a grid in which one cell survived, one died and one
\* was born, the born cell next to the one that died.
C1_Witness ==
    /\ Returned("tick")
    /\ \E p, q, r \in Positions(prev) :
          /\ AliveAt(prev, p[1], p[2]) /\ AliveAt(cells, p[1], p[2])
          /\ AliveAt(prev, q[1], q[2]) /\ ~AliveAt(cells, q[1], q[2])
          /\ ~AliveAt(prev, r[1], r[2]) /\ AliveAt(cells, r[1], r[2])
          /\ r \in Neighbourhood(q[1], q[2])

\* C2: on every grid, narrow ones included, get_neighbours_count_at_pos of
\* a cell is the number of Alive cells among the in-bounds positions of its
\* 3x3 neighbourhood without the centre, and lies in 0..8.
C2_NeighbourCount ==
    \A g \in {cells, prev} : \A p \in Positions(g) :
        /\ get_neighbours_count_at_pos(g, p[1], p[2]) = RefCount(g, p[1], p[2])
        /\ get_neighbours_count_at_pos(g, p[1], p[2]) \in 0..8

\* A tick has counted the neighbours of an all-Alive 3x3 grid: 8 for the
\* interior cell, 3 for a corner.
C2_Witness ==
    /\ Returned("tick")
    /\ Width(prev) = 3 /\ Height(prev) = 3
    /\ AliveSet(prev) = Positions(prev)
    /\ get_neighbours_count_at_pos(prev, 1, 1) = 8
    /\ get_neighbours_count_at_pos(prev, 0, 0) = 3

\* C3: revive_cell_at_pos and kill_cell_at_pos return None and change
\* nothing when x >= width or y >= height, return Some when (x, y) is
\* in bounds, and never panic.
C3_OutOfBounds ==
    call.op \in {"revive", "kill"} =>
        /\ pc = "returned"
        /\ IF call.a >= Width(prev) \/ call.b >= Height(prev)
           THEN ret = "None" /\ cells = prev
           ELSE ret = "Some"

\* A revive one column beyond the right edge of a grid with cells, in a
\* row the grid has.
C3_Witness ==
    /\ Returned("revive")
    /\ Width(prev) >= 1
    /\ call.a = Width(prev)
    /\ call.b < Height(prev)
    /\ ret = "None"

\* C4: when resize_if_larger(w, h) returns, the grid has max(H, h) rows of
\* max(W, w) cells each, every cell that existed keeps its state at its
\* position, and every added cell is Dead.
C4_ResizeResult ==
    Returned("resize") =>
        /\ Len(cells) = Max(Height(prev), call.b)
        /\ \A j \in 1..Len(cells) : Len(cells[j]) = Max(Width(prev), call.a)
        /\ \A p \in Positions(cells) :
              AliveAt(cells, p[1], p[2]) <=> AliveAt(prev, p[1], p[2])

\* A resize has grown a grid that holds an Alive cell in both dimensions.
C4_Witness ==
    /\ Returned("resize")
    /\ AliveSet(prev) # {}
    /\ Width(cells) > Width(prev)
    /\ Height(cells) > Height(prev)

\* C5: no call makes the grid lose a row or a column.
C5_NeverShrinks ==
    call.op # "none" =>
        /\ Len(cells) >= Len(prev)
        /\ \A j \in 1..Len(prev) : Len(cells[j]) >= Len(prev[j])

\* A resize asking for fewer columns and more rows than the grid has.
C5_Witness ==
    /\ Returned("resize")
    /\ call.a < Width(prev)
    /\ call.b > Height(prev)

\* C6: the grid is rectangular in every reachable state.
C6_Rectangular ==
    \A i, j \in 1..Len(cells) : Len(cells[i]) = Len(cells[j])

\* A resize has grown, in both dimensions, a grid whose rows were empty.
C6_Witness ==
    /\ Returned("resize")
    /\ Height(prev) >= 1 /\ Width(prev) = 0
    /\ Height(cells) > Height(prev)
    /\ Width(cells) > 0

\* C7: an in-bounds revive makes the cell Alive and changes no other cell
\* (on an all-Dead grid it leaves exactly that cell Alive), reviving again
\* changes nothing, and a kill at the same position gives back the grid
\* from before when the cell was Dead there; an in-bounds kill makes the
\* cell Dead, changes no other cell, and killing again changes nothing.
C7_ReviveKill ==
    /\ (Returned("revive") /\ ret = "Some") =>
          /\ SameShape(cells, prev)
          /\ AliveSet(cells) = AliveSet(prev) \cup {<<call.a, call.b>>}
          /\ (AliveSet(prev) = {} => AliveSet(cells) = {<<call.a, call.b>>})
          /\ revive_cell_at_pos(cells, call.a, call.b).cells = cells
          /\ (~AliveAt(prev, call.a, call.b) =>
                 kill_cell_at_pos(cells, call.a, call.b).cells = prev)
    /\ (Returned("kill") /\ ret = "Some") =>
          /\ SameShape(cells, prev)
          /\ AliveSet(cells) = AliveSet(prev) \ {<<call.a, call.b>>}
          /\ kill_cell_at_pos(cells, call.a, call.b).cells = cells

\* A revive of a Dead cell in a grid that holds another Alive cell.
C7_Witness ==
    /\ Returned("revive") /\ ret = "Some"
    /\ ~AliveAt(prev, call.a, call.b)
    /\ AliveSet(prev) # {}

\* C8: resize_if_larger(w, h) with w <= width and h <= height returns the
\* grid as it was: same dimensions, same cells.
C8_ResizeNoOp ==
    (Returned("resize") /\ call.a <= Width(prev) /\ call.b <= Height(prev)) =>
        cells = prev

\* A resize asking for less than a grid with an Alive cell has, in both
\* dimensions.
C8_Witness ==
    /\ Returned("resize")
    /\ call.a < Width(prev)
    /\ call.b < Height(prev)
    /\ AliveSet(prev) # {}

\* C9: resize_if_larger runs to completion on every grid Game::new builds.
C9_ResizeCompletes ==
    call.op = "resize" => pc # "panicked"

\* C10: tick completes on every rectangular grid, empty ones included.
C10_TickCompletes ==
    call.op = "tick" => pc = "returned" /\ ret = "Unit"

\* A tick has run on the grid without rows.
C10_Witness ==
    /\ Returned("tick")
    /\ prev = <<>>
    /\ cells = <<>>

\* C11: cells() lists every cell of the grid exactly once, row 0 first and
\* left to right within a row, each with its column and row index, and it
\* shows the grid as it is now.
C11_CellsEnumeration ==
    LET r == Game_cells(cells)
    IN  /\ Len(r) = Cardinality(Positions(cells))
        /\ \A k \in 1..Len(r) :
              /\ r[k][2] \in Positions(cells)
              /\ r[k][1] = cells[r[k][2][2] + 1][r[k][2][1] + 1]
        /\ \A k, l \in 1..Len(r) :
              k < l => \/ r[k][2][2] < r[l][2][2]
                       \/ r[k][2][2] = r[l][2][2] /\ r[k][2][1] < r[l][2][1]

\* A revive off the diagonal of a grid with several rows and columns has
\* just returned, and the enumeration shows that cell, and only it, Alive.
C11_Witness ==
    /\ Returned("revive") /\ ret = "Some"
    /\ call.a # call.b
    /\ Width(cells) >= 2 /\ Height(cells) >= 2
    /\ AliveSet(prev) = {}
    /\ LET r == Game_cells(cells)
       IN  {r[k][2] : k \in {i \in 1..Len(r) : is_alive(r[i][1])}} = {<<call.a, call.b>>}

\* C17: in every reachable state every cell stores the column and row
\* index of the place it has in the grid.
C17_StoredCoordinates ==
    \A p \in Positions(cells) :
        /\ cells[p[2] + 1][p[1] + 1].x = p[1]
        /\ cells[p[2] + 1][p[1] + 1].y = p[2]

\* A tick has run on a grid whose only Alive cell lies outside the first
\* row and the first column: the cell counted no neighbour, itself left
\* out by its stored coordinates, and died.
C17_Witness ==
    /\ Returned("tick")
    /\ \E p \in AliveSet(prev) :
          /\ p[1] >= 1 /\ p[2] >= 1
          /\ AliveSet(prev) = {p}
          /\ get_neighbours_count_at_pos(prev, p[1], p[2]) = 0
    /\ AliveSet(cells) = {}

\* C18: the grid a tick leaves has as many rows as the grid it started
\* from, and each row has the length it had.
C18_TickKeepsDimensions ==
    Returned("tick") =>
        /\ Len(cells) = Len(prev)
        /\ \A j \in 1..Len(prev) : Len(cells[j]) = Len(prev[j])

\* A tick has run on a grid that is not square and holds an Alive cell.
C18_Witness ==
    /\ Returned("tick")
    /\ Width(prev) # Height(prev)
    /\ Width(prev) >= 1
    /\ AliveSet(prev) # {}

----------------------------------------------------------------------------
\* The scenarios: a caller builds a grid, revives the cells of a pattern
\* in any order, and then only ticks.

\* Most ticks a scenario runs.
MaxTicks == 4

Glider == {<<1, 0>>, <<2, 1>>, <<0, 2>>, <<1, 2>>, <<2, 2>>}

GliderScenario == [width |-> 5, height |-> 5, alive |-> Glider]

Block(x, y) == {<<x, y>>, <<x + 1, y>>, <<x, y + 1>>, <<x + 1, y + 1>>}

\* A 2x2 block at every place of every grid from 2x2 to 5x5.
BlockScenarios ==
    {[width |-> w, height |-> h, alive |-> Block(x, y)] :
        <<w, h, x, y>> \in {q \in (2..5) \X (2..5) \X (0..3) \X (0..3) :
                               q[3] + 2 <= q[1] /\ q[4] + 2 <= q[2]}}

IsBlockScenario == scenario \in BlockScenarios

Translate(set, dx, dy) == {<<p[1] + dx, p[2] + dy>> : p \in set}

ScenarioInit ==
    /\ scenario \in {GliderScenario} \cup BlockScenarios
    /\ cells = Game_new(scenario.width, scenario.height)
    /\ gen = 0
    /\ pc = "idle"
    /\ call = NoCall
    /\ ret = "Unit"
    /\ prev = cells
    /\ playing = FALSE
    /\ sleep_ms = 0

ScenarioRevive ==
    /\ pc = "idle"
    /\ gen = 0
    /\ \E p \in scenario.alive :
          Finish("revive", p[1], p[2], revive_cell_at_pos(cells, p[1], p[2]))
    /\ UNCHANGED <<driver_vars, scenario_vars>>

ScenarioTick ==
    /\ pc = "idle"
    /\ gen < MaxTicks
    /\ gen = 0 => AliveSet(cells) = scenario.alive
    /\ Finish("tick", 0, 0, tick(cells))
    /\ gen' = gen + 1
    /\ UNCHANGED <<driver_vars, scenario>>

ScenarioNext == ScenarioRevive \/ ScenarioTick \/ Return

SpecScenario == ScenarioInit /\ [][ScenarioNext]_vars

\* C12: the glider revived in a 5x5 all-Dead grid is, after one tick,
\* {(0,1),(2,1),(1,2),(2,2),(1,3)} and, after four ticks,
\* {(2,1),(3,2),(1,3),(2,3),(3,3)}, the start pattern moved by (+1,+1).
C12_Glider ==
    scenario = GliderScenario =>
        /\ gen = 1 => AliveSet(cells) = {<<0, 1>>, <<2, 1>>, <<1, 2>>, <<2, 2>>, <<1, 3>>}
        /\ gen = 4 =>
              /\ AliveSet(cells) = {<<2, 1>>, <<3, 2>>, <<1, 3>>, <<2, 3>>, <<3, 3>>}
              /\ AliveSet(cells) = Translate(Glider, 1, 1)

\* The fourth tick of the glider scenario has just returned.
C12_Witness ==
    /\ scenario = GliderScenario
    /\ Returned("tick")
    /\ gen = 4
    /\ Width(cells) = 5 /\ Height(cells) = 5

\* C13: a grid whose only Alive cells are a 2x2 block, wherever the block
\* lies, has the same Alive cells after every tick.
C13_BlockStillLife ==
    (IsBlockScenario /\ gen >= 1) => AliveSet(cells) = scenario.alive

\* Several ticks have run on a block in the bottom right corner of a grid
\* that is wider than the block.
C13_Witness ==
    /\ IsBlockScenario
    /\ Returned("tick")
    /\ gen >= 3
    /\ scenario.width >= 3
    /\ <<scenario.width - 1, scenario.height - 1>> \in scenario.alive

----------------------------------------------------------------------------
\* The terminal driver: TuiGame of src/src/main.rs.  What it writes to
\* the terminal is left out; the grid, `playing` and the sleep are kept.

\* Duration::from_millis(80): the sleep at the end of a loop iteration.
LoopSleepMillis == 80

\* What terminal_size() may answer.
TermSizes == (0..MaxWidth) \X (0..MaxHeight)

\* The events start_loop tells apart.  Mouse events carry the 1-based
\* column a and row b of the pointer, up to one beyond the largest grid;
\* "other" is every event of the `_ => ()` arm.
MouseEvents ==
    [kind : {"left_press", "hold", "right_press"},
     a : 1..(MaxWidth + 1), b : 1..(MaxHeight + 1)]

KeyEvents ==
    [kind : {"quit", "key_right", "space", "other"}, a : {0}, b : {0}]

Events == MouseEvents \cup KeyEvents

\* TuiGame::render: the grid grown to the terminal size it reads, then
\* every cell drawn.
render(g, width, height) == resize_if_larger(g, width, height)

\* TuiGame::tick: Game::tick, then render.
TuiGame_tick(g, width, height) ==
    LET t == tick(g)
    IN  IF t.ret = "Panic" THEN t ELSE render(t.cells, width, height)

TuiGame_revive_cell_at_pos_grows(g, x, y) ==
    IF Len(g) = 0
    THEN revive_cell_at_pos(g, x, y)
    ELSE revive_cell_at_pos(resize_if_larger(g, x + 1, y + 1).cells, x, y)

\* TuiGame::revive_cell_at_pos / kill_cell_at_pos: the Game's call, and
\* the cell drawn when it answered Some.
TuiGame_revive_cell_at_pos(g, x, y) == revive_cell_at_pos(g, x, y)

TuiGame_kill_cell_at_pos(g, x, y) == kill_cell_at_pos(g, x, y)

\* Whether the arm of the match that takes event e calls TuiGame::tick.
event_ticks(e, p) == e.kind = "key_right" /\ ~p

on_event_kills_while_playing(e, g, p, ms, width, height) ==
    LET with(r) == [cells |-> r.cells, ret |-> r.ret, playing |-> p, sleep_ms |-> ms]
    IN  CASE e.kind = "quit" ->
               [cells |-> g, ret |-> "Quit", playing |-> p, sleep_ms |-> ms]
          [] e.kind \in {"left_press", "hold"} ->
               with(TuiGame_revive_cell_at_pos(g, e.a - 1, e.b - 1))
          [] e.kind = "right_press" ->
               with(TuiGame_kill_cell_at_pos(g, e.a - 1, e.b - 1))
          [] e.kind = "key_right" /\ ~p ->
               with(TuiGame_tick(g, width, height))
          [] e.kind = "space" ->
               [cells |-> g, ret |-> "Unit", playing |-> ~p, sleep_ms |-> ms]
          [] OTHER ->
               [cells |-> g, ret |-> "Ignored", playing |-> p, sleep_ms |-> ms]

on_event_ticks_while_playing(e, g, p, ms, width, height) ==
    LET with(r) == [cells |-> r.cells, ret |-> r.ret, playing |-> p, sleep_ms |-> ms]
    IN  CASE e.kind = "quit" ->
               [cells |-> g, ret |-> "Quit", playing |-> p, sleep_ms |-> ms]
          [] e.kind \in {"left_press", "hold"} ->
               with(TuiGame_revive_cell_at_pos(g, e.a - 1, e.b - 1))
          [] e.kind = "right_press" /\ ~p ->
               with(TuiGame_kill_cell_at_pos(g, e.a - 1, e.b - 1))
          [] e.kind = "key_right" /\ ~p ->
               with(TuiGame_tick(g, width, height))
          [] e.kind = "key_right" /\ p ->
               with(tick(g))
          [] e.kind = "space" ->
               [cells |-> g, ret |-> "Unit", playing |-> ~p, sleep_ms |-> ms]
          [] OTHER ->
               [cells |-> g, ret |-> "Ignored", playing |-> p, sleep_ms |-> ms]

on_event_speed_key(e, g, p, ms, width, height) ==
    LET with(r) == [cells |-> r.cells, ret |-> r.ret, playing |-> p, sleep_ms |-> ms]
    IN  CASE e.kind = "quit" ->
               [cells |-> g, ret |-> "Quit", playing |-> p, sleep_ms |-> ms]
          [] e.kind \in {"left_press", "hold"} ->
               with(TuiGame_revive_cell_at_pos(g, e.a - 1, e.b - 1))
          [] e.kind = "right_press" /\ ~p ->
               with(TuiGame_kill_cell_at_pos(g, e.a - 1, e.b - 1))
          [] e.kind = "key_right" /\ ~p ->
               with(TuiGame_tick(g, width, height))
          [] e.kind = "space" ->
               [cells |-> g, ret |-> "Unit", playing |-> ~p, sleep_ms |-> ms]
          [] e.kind = "other" ->
               [cells |-> g, ret |-> "Unit", playing |-> p, sleep_ms |-> ms \div 2]
          [] OTHER ->
               [cells |-> g, ret |-> "Ignored", playing |-> p, sleep_ms |-> ms]

\* The match of start_loop on one event, in the order of its arms; p is
\* `playing`, ms the sleep of the loop, (width, height) what
\* terminal_size() answers if the arm renders.
on_event(e, g, p, ms, width, height) ==
    LET with(r) == [cells |-> r.cells, ret |-> r.ret, playing |-> p, sleep_ms |-> ms]
    IN  CASE e.kind = "quit" ->
               [cells |-> g, ret |-> "Quit", playing |-> p, sleep_ms |-> ms]
          [] e.kind \in {"left_press", "hold"} ->
               with(TuiGame_revive_cell_at_pos(g, e.a - 1, e.b - 1))
          [] e.kind = "right_press" /\ ~p ->
               with(TuiGame_kill_cell_at_pos(g, e.a - 1, e.b - 1))
          [] e.kind = "key_right" /\ ~p ->
               with(TuiGame_tick(g, width, height))
          [] e.kind = "space" ->
               [cells |-> g, ret |-> "Unit", playing |-> ~p, sleep_ms |-> ms]
          [] OTHER ->
               [cells |-> g, ret |-> "Ignored", playing |-> p, sleep_ms |-> ms]

\* After the events of an iteration: `if playing { self.tick()? }`.
end_of_iteration(g, p, width, height) ==
    IF p
    THEN TuiGame_tick(g, width, height)
    ELSE [cells |-> g, ret |-> "Ignored"]

\* The grid that a render reading (width, height) would leave stays
\* within the largest grid of the model.
WithinCells(g, width, height) ==
    Max(Width(g), width) * Max(Height(g), height) <= MaxCells

\* TuiGame::new: the grid has the size of the terminal; `playing` starts
\* false.
TuiInit ==
    /\ \E sz \in TermSizes :
          /\ sz[1] * sz[2] <= MaxCells
          /\ cells = Game_new(sz[1], sz[2])
    /\ pc = "start"
    /\ call = NoCall
    /\ ret = "Unit"
    /\ prev = cells
    /\ playing = FALSE
    /\ sleep_ms = LoopSleepMillis
    /\ scenario = NoScenario
    /\ gen = 0

TuiFinish(op, a, b, r) ==
    /\ cells' = r.cells
    /\ ret' = r.ret
    /\ pc' = CASE r.ret = "Panic" -> "panicked"
               [] r.ret = "Quit" -> "quit"
               [] OTHER -> "returned"
    /\ call' = [op |-> op, a |-> a, b |-> b]
    /\ prev' = cells
    /\ UNCHANGED scenario_vars

\* TuiGame::run up to start_loop: the first render.
TuiRun ==
    /\ pc = "start"
    /\ \E sz \in TermSizes :
          /\ WithinCells(cells, sz[1], sz[2])
          /\ TuiFinish("run", sz[1], sz[2], render(cells, sz[1], sz[2]))
    /\ UNCHANGED driver_vars

\* One event of `for event in stdin.events()`.  call keeps the pointer's
\* column and row for a mouse event, and the terminal size read for an
\* event that renders.
TuiEvent ==
    /\ pc = "idle"
    /\ \E e \in Events : \E sz \in TermSizes :
          /\ IF event_ticks(e, playing)
             THEN WithinCells(cells, sz[1], sz[2])
             ELSE sz = <<e.a, e.b>>
          /\ LET r == on_event(e, cells, playing, sleep_ms, sz[1], sz[2])
             IN  /\ TuiFinish(e.kind, sz[1], sz[2], r)
                 /\ playing' = r.playing
                 /\ sleep_ms' = r.sleep_ms

\* The events have run out: the automatic tick, the flush and the sleep.
TuiIterationEnd ==
    /\ pc = "idle"
    /\ \E sz \in TermSizes :
          /\ IF playing
             THEN WithinCells(cells, sz[1], sz[2])
             ELSE sz = <<0, 0>>
          /\ TuiFinish("iteration", sz[1], sz[2],
                       end_of_iteration(cells, playing, sz[1], sz[2]))
    /\ UNCHANGED driver_vars

TuiNext == TuiRun \/ TuiEvent \/ TuiIterationEnd \/ Return

SpecTui == TuiInit /\ [][TuiNext]_vars

\* The Alive cells one generation after grid g, by the rule and the
\* reference neighbour count.
RefNextGen(g) ==
    {p \in Positions(g) :
        \/ AliveAt(g, p[1], p[2]) /\ RefCount(g, p[1], p[2]) \in {2, 3}
        \/ ~AliveAt(g, p[1], p[2]) /\ RefCount(g, p[1], p[2]) = 3}

PointerOps == {"left_press", "hold", "right_press"}

\* The 0-based position of the pointer of the mouse event in call.
PointerPos == <<call.a - 1, call.b - 1>>

\* C14 as stated: in every loop state a left press or hold at an in-grid
\* position makes that cell Alive and a right press at an in-grid position
\* makes that cell Dead.
C14_PointerToggles ==
    (pc = "returned" /\ call.op \in PointerOps
        /\ InGrid(prev, PointerPos[1], PointerPos[2])) =>
        IF call.op = "right_press"
        THEN ~AliveAt(cells, PointerPos[1], PointerPos[2])
        ELSE AliveAt(cells, PointerPos[1], PointerPos[2])

\* C14 as amended: a left press or hold at an in-grid position makes that
\* cell Alive, paused or playing; a right press at an in-grid position
\* makes that cell Dead while paused and changes nothing while playing;
\* no other cell changes.
C14_PointerTogglesWhilePaused ==
    (pc = "returned" /\ call.op \in PointerOps
        /\ InGrid(prev, PointerPos[1], PointerPos[2])) =>
        /\ SameShape(cells, prev)
        /\ call.op \in {"left_press", "hold"} =>
              AliveSet(cells) = AliveSet(prev) \cup {PointerPos}
        /\ (call.op = "right_press" /\ ~playing) =>
              AliveSet(cells) = AliveSet(prev) \ {PointerPos}
        /\ (call.op = "right_press" /\ playing) => cells = prev

\* A right press on an Alive cell while playing has been handled, and the
\* cell is still Alive.
C14_Witness ==
    /\ Returned("right_press")
    /\ playing
    /\ AliveAt(prev, PointerPos[1], PointerPos[2])
    /\ AliveAt(cells, PointerPos[1], PointerPos[2])

\* One step of the loop, for C15.
C15_Step ==
    LET op == call'.op
        ticks == \/ op = "key_right" /\ ~playing
                 \/ op = "iteration" /\ playing
        pos == <<call'.a - 1, call'.b - 1>>
    IN  /\ pc = "start" => ~playing /\ AliveSet(cells') = AliveSet(cells)
        /\ playing' = IF pc = "idle" /\ op = "space" THEN ~playing ELSE playing
        /\ (pc = "idle" /\ ticks) => AliveSet(cells') = RefNextGen(cells)
        /\ (pc = "idle" /\ ~ticks) =>
              IF op \in PointerOps
              THEN AliveSet(cells') \ {pos} = AliveSet(cells) \ {pos}
              ELSE cells' = cells

\* C15: `playing` starts off and only Space toggles it; a Right-arrow
\* event while paused, and the end of a loop iteration while playing,
\* advance the grid by exactly one generation; no other event, and no
\* end of an iteration while paused, advances a generation.
C15_Generations == [][C15_Step]_vars

\* The automatic tick of an iteration has changed the Alive cells and
\* left some.
C15_Witness ==
    /\ Returned("iteration")
    /\ playing
    /\ AliveSet(cells) # AliveSet(prev)
    /\ AliveSet(cells) # {}

\* C16 as stated: the handling of some input event changes the interval
\* between automatic ticks.
C16_RateAdjustable ==
    pc = "idle" =>
        \E e \in Events : \E sz \in TermSizes :
            on_event(e, cells, playing, sleep_ms, sz[1], sz[2]).sleep_ms # sleep_ms

\* C16 as amended: the interval is fixed; the loop sleeps 80 ms at the end
\* of every iteration whatever events it has handled.
C16_FixedRate == sleep_ms = LoopSleepMillis

\* An automatic tick that rendered has run after a Space event.
C16_Witness ==
    /\ Returned("iteration")
    /\ playing
    /\ ret = "Unit"
    /\ sleep_ms = LoopSleepMillis

\* Whether the call that has just returned rendered.
Rendered ==
    /\ pc = "returned"
    /\ \/ call.op = "run"
       \/ call.op \in {"key_right", "iteration"} /\ ret = "Unit"

\* C19: right after a render the grid is at least as wide and as high as
\* the terminal size the render read; a step that does not render leaves
\* the dimensions alone; a pointer event outside the grid changes nothing.
C19_GrowthOnlyInRender ==
    /\ Rendered => Width(cells) >= call.a /\ Height(cells) >= call.b
    /\ (pc = "returned" /\ ~Rendered) => SameShape(cells, prev)
    /\ (pc = "returned" /\ call.op \in PointerOps
           /\ ~InGrid(prev, PointerPos[1], PointerPos[2])) => cells = prev

\* A left press one column beyond the right edge of the grid, in a row
\* the grid has, has been handled.
C19_Witness ==
    /\ Returned("left_press")
    /\ Width(prev) >= 1
    /\ PointerPos[1] = Width(prev)
    /\ PointerPos[2] < Height(prev)
    /\ ret = "None"
    /\ cells = prev

====
